---------------------------- MODULE Spec2Model ----------------------------
(***************************************************************************)
(* Model of scripts/sprites/render_sprites.py: the batch driver (main),    *)
(* the per-model render pipeline (render_model) and its helpers            *)
(* (should_exclude_object, setup_scene, create_camera, create_lights,      *)
(* fit_camera_to_objects), driving the host's global scene state.          *)
(*                                                                         *)
(* Conventions.  Object names are sequences of one-character strings, so   *)
(* that lower() and the substring test are computed.  Lengths are integers *)
(* counted in hundredths of a scene unit (1.0 is 100, 0.01 is 1).  Values  *)
(* the code obtains by a true division are exact fractions [n, d].         *)
(***************************************************************************)
EXTENDS Integers, Sequences, FiniteSets, TLC

VARIABLES
    pc,                \* position of the script
    idx,               \* position of main's loop in UNIT_CONFIG
    exists,            \* what blend_file.exists() answered for each entry visited so far
    scene,             \* objects of bpy.context.scene
    loaded,            \* data_to.objects of the current render_model call
    excluded_objects,  \* render_model's local list
    resolution,        \* <<scene.render.resolution_x, scene.render.resolution_y>>
    filepath,          \* scene.render.filepath
    camera,            \* render_model's local camera: its location and ortho_scale
    scene_camera,      \* scene.camera (the name of the active camera object)
    out,               \* lines printed by main and by the first/last line of render_model
    printed,           \* "Excluding object" lines printed by the current call
    outputs,           \* PNG files in OUTPUT_DIR
    steps,             \* steps the current render_model call has completed
    failed,            \* the host failure that ended the batch, if any
    arg,               \* argument of the function under test
    ret                \* its return value

vars == <<pc, idx, exists, scene, loaded, excluded_objects, resolution, filepath,
          camera, scene_camera, out, printed, outputs, steps, failed, arg, ret>>

-----------------------------------------------------------------------------
(* Bounds *)

MaxNameLen == 3     \* generated object names have at most this many characters
MaxXY      == 21    \* generated bounding boxes: X and Y extents in 0..MaxXY
MaxZ       == 2     \* generated bounding boxes: Z extent in 0..MaxZ
MaxObjects == 2     \* a model file holds at most this many objects

-----------------------------------------------------------------------------
(* Arithmetic *)

Abs(n) == IF n < 0 THEN -n ELSE n

RECURSIVE GCD(_, _)
GCD(a, b) == IF b = 0 THEN a ELSE GCD(b, a % b)

\* the exact value of n / d, in lowest terms with a positive denominator
Frac(n, d) ==
    LET s == IF d < 0 THEN -1 ELSE 1
        g == GCD(Abs(n), Abs(d))
    IN  [n |-> (s * n) \div g, d |-> (s * d) \div g]

FracInt(n)     == Frac(n, 1)
FracMul(a, b)  == Frac(a.n * b.n, a.d * b.d)
FracDiv(a, b)  == Frac(a.n * b.d, a.d * b.n)
FracLess(a, b) == a.n * b.d < b.n * a.d

\* max() and min() of a non-empty list of integers
RECURSIVE ListMax(_)
ListMax(s) == IF Len(s) = 1 THEN s[1]
              ELSE LET m == ListMax(Tail(s)) IN IF s[1] > m THEN s[1] ELSE m

RECURSIVE ListMin(_)
ListMin(s) == IF Len(s) = 1 THEN s[1]
              ELSE LET m == ListMin(Tail(s)) IN IF s[1] < m THEN s[1] ELSE m

-----------------------------------------------------------------------------
(* Configuration *)

\* UNIT_CONFIG, in insertion order: output name, width_hexes, height_hexes
UNIT_CONFIG == <<
    [blend |-> "3dprint_char",           output |-> "tank",      w |-> 1, h |-> 1],
    [blend |-> "3dprint_gros_tas",       output |-> "supertank", w |-> 1, h |-> 1],
    [blend |-> "3dprint_crabe",          output |-> "crab",      w |-> 1, h |-> 1],
    [blend |-> "3dprint_pondeuse_meteo", output |-> "converter", w |-> 1, h |-> 1],
    [blend |-> "3dprint_barge",          output |-> "barge",     w |-> 2, h |-> 1],
    [blend |-> "3dPrint_vedette",        output |-> "motorboat", w |-> 1, h |-> 1],
    [blend |-> "3dprint_pont",           output |-> "bridge",    w |-> 1, h |-> 1],
    [blend |-> "3dprint_astronef",       output |-> "astronef",  w |-> 2, h |-> 2],
    [blend |-> "3dprint_marqueur",       output |-> "marker",    w |-> 1, h |-> 1] >>

BASE_WIDTH  == 512
\* int(512 * 52 / 60): the quotient is positive, so int() is the floor
BASE_HEIGHT == (512 * 52) \div 60

EXCLUDE_PATTERNS == <<
    <<"p","l","a","n","e">>, <<"b","a","s","e">>, <<"f","l","o","o","r">>,
    <<"p","l","a","t","f","o","r","m">>, <<"g","r","o","u","n","d">>,
    <<"h","e","x">>, <<"h","e","x","a","g","o","n">>,
    <<"h","e","x","a","g","o","n","e">>, <<"s","o","c","l","e">>,
    <<"s","u","p","p","o","r","t">>, <<"s","t","a","n","d">>, <<"p","a","d">> >>

\* the flatness threshold 0.05 and the framing padding 1.2
FlatRatio == Frac(5, 100)
Padding   == Frac(12, 10)

-----------------------------------------------------------------------------
(* Strings *)

UpperCase == <<"A","B","C","D","E","F","G","H","I","J","K","L","M",
               "N","O","P","Q","R","S","T","U","V","W","X","Y","Z">>
LowerCase == <<"a","b","c","d","e","f","g","h","i","j","k","l","m",
               "n","o","p","q","r","s","t","u","v","w","x","y","z">>

\* a comparison that keeps the case
LowerChar_keep_case(c) == c

\* str.lower(), on ASCII names
LowerChar(c) == IF \E i \in 1..26 : UpperCase[i] = c
                THEN LowerCase[CHOOSE i \in 1..26 : UpperCase[i] = c]
                ELSE c
Lower(s) == [i \in 1..Len(s) |-> LowerChar(s[i])]

\* pattern in s
RECURSIVE FindFrom(_, _, _)
FindFrom(pattern, s, i) ==
    IF i + Len(pattern) - 1 > Len(s) THEN FALSE
    ELSE IF SubSeq(s, i, i + Len(pattern) - 1) = pattern THEN TRUE
    ELSE FindFrom(pattern, s, i + 1)
StrIn(pattern, s) == FindFrom(pattern, s, 1)

-----------------------------------------------------------------------------
(* Objects *)

\* the eight corners of the box from lo to hi, in the host's corner order
BoundBox(lo, hi) == <<
    <<lo[1], lo[2], lo[3]>>, <<lo[1], lo[2], hi[3]>>,
    <<lo[1], hi[2], hi[3]>>, <<lo[1], hi[2], lo[3]>>,
    <<hi[1], lo[2], lo[3]>>, <<hi[1], lo[2], hi[3]>>,
    <<hi[1], hi[2], hi[3]>>, <<hi[1], hi[2], lo[3]>> >>

\* 3x4 affine transforms: rows of the linear part followed by the translation
Identity       == << <<1, 0, 0, 0>>, <<0, 1, 0, 0>>, <<0, 0, 1, 0>> >>
Translate(v)   == << <<1, 0, 0, v[1]>>, <<0, 1, 0, v[2]>>, <<0, 0, 1, v[3]>> >>
QuarterTurn(v) == << <<0, -1, 0, v[1]>>, <<1, 0, 0, v[2]>>, <<0, 0, 1, v[3]>> >>

\* the corner left in the object's local space
MatVec_local(m, v) == v

\* obj.matrix_world @ Vector(vertex)
MatVec(m, v) == [r \in 1..3 |-> m[r][1] * v[1] + m[r][2] * v[2] + m[r][3] * v[3] + m[r][4]]

Obj(name, type, box, matrix) ==
    [name |-> name, type |-> type, bound_box |-> box, matrix_world |-> matrix,
     origin |-> 0, via |-> "file", select |-> FALSE]

-----------------------------------------------------------------------------
(* should_exclude_object *)

RECURSIVE AnyPattern(_, _)
AnyPattern(patterns, name_lower) ==
    IF patterns = <<>> THEN FALSE
    ELSE IF StrIn(Head(patterns), name_lower) THEN TRUE
    ELSE AnyPattern(Tail(patterns), name_lower)

\* the flatness test with "<=" for "<"
IsFlat_inclusive(z_height, xy_size) ==
    xy_size > 0 /\ ~FracLess(FlatRatio, Frac(z_height, xy_size))

\* xy_size > 0 and z_height / xy_size < 0.05
IsFlat(z_height, xy_size) ==
    xy_size > 0 /\ FracLess(Frac(z_height, xy_size), FlatRatio)

should_exclude_object(obj) ==
    IF obj.type # "MESH" THEN FALSE
    ELSE IF AnyPattern(EXCLUDE_PATTERNS, Lower(obj.name)) THEN TRUE
    ELSE LET bbox        == obj.bound_box
             z_coords    == [i \in 1..Len(bbox) |-> bbox[i][3]]
             z_height    == ListMax(z_coords) - ListMin(z_coords)
             xy_coords_x == [i \in 1..Len(bbox) |-> bbox[i][1]]
             xy_coords_y == [i \in 1..Len(bbox) |-> bbox[i][2]]
             xy_size     == ListMax(<<ListMax(xy_coords_x) - ListMin(xy_coords_x),
                                      ListMax(xy_coords_y) - ListMin(xy_coords_y)>>)
         IN  IF IsFlat(z_height, xy_size) THEN TRUE ELSE FALSE

-----------------------------------------------------------------------------
(* Model files and the host's startup scene *)

N == Len(UNIT_CONFIG)

ZeroBox == BoundBox(<<0, 0, 0>>, <<0, 0, 0>>)

\* objects a model file may hold (names are unique within a file)
Templates == <<
    Obj(<<"C","u","b","e">>, "MESH", BoundBox(<<-100, -100, -100>>, <<100, 100, 100>>), Identity),
    Obj(<<"T","u","r","r","e","t">>, "MESH", BoundBox(<<-100, -100, -100>>, <<100, 100, 100>>),
        Translate(<<400, 400, 0>>)),
    Obj(<<"h","e","x","_","s","o","c","l","e">>, "MESH", BoundBox(<<-900, -900, 0>>, <<900, 900, 200>>), Identity),
    Obj(<<"D","i","s","c">>, "MESH", BoundBox(<<-800, -800, 0>>, <<800, 800, 1>>), Identity),
    Obj(<<"H","u","l","l">>, "MESH", BoundBox(<<0, 0, 0>>, <<512, 443, 300>>), Identity),
    Obj(<<"W","i","n","g">>, "MESH", BoundBox(<<0, 0, 0>>, <<100, 700, 80>>),
        QuarterTurn(<<-50, 20, 0>>)),
    Obj(<<"M","a","s","t">>, "MESH", ZeroBox, Translate(<<-250, 30, 500>>)),
    Obj(<<"C","a","m","e","r","a">>, "CAMERA", ZeroBox, Translate(<<700, -600, 500>>)) >>

\* the objects of a set of template indices, in index order
RECURSIVE FileObjects(_)
FileObjects(S) ==
    IF S = {} THEN <<>>
    ELSE LET i == CHOOSE i \in S : \A j \in S : i <= j
         IN  <<Templates[i]>> \o FileObjects(S \ {i})

ModelFiles ==
    {FileObjects(S) : S \in {T \in SUBSET (1..Len(Templates)) : Cardinality(T) <= MaxObjects}}

NoCamera == [name |-> <<>>, origin |-> 0]

\* the scene Blender starts with: Cube, Light and Camera, the camera active
StartupScene == {
    Obj(<<"C","u","b","e">>, "MESH", BoundBox(<<-100, -100, -100>>, <<100, 100, 100>>), Identity),
    Obj(<<"L","i","g","h","t">>, "LIGHT", ZeroBox, Translate(<<408, 100, 590>>)),
    Obj(<<"C","a","m","e","r","a">>, "CAMERA", ZeroBox, Translate(<<736, -693, 496>>)) }

\* default ortho_scale of new camera data (6.0)
CameraDefaultOrthoScale == FracInt(600)

IdleCamera == [name |-> <<>>, origin |-> 0,
               location |-> <<FracInt(0), FracInt(0), FracInt(0)>>,
               ortho_scale |-> FracInt(0)]

NoPath == [dir |-> "", name |-> "", ext |-> ""]

NoFailure == [at |-> 0, step |-> "", out |-> <<>>, outputs |-> <<>>]

-----------------------------------------------------------------------------
(* Host operations *)

\* bpy.ops.object.select_all(action='SELECT')
select_all(objs) == {[o EXCEPT !.select = TRUE] : o \in objs}

\* bpy.ops.object.delete(use_global=False): deletes the selected objects
delete(objs) == {o \in objs : ~o.select}

\* bpy.ops.object.camera_add / light_add: the new object becomes the only
\* selected one
object_add(objs, name, type, location) ==
    {[o EXCEPT !.select = FALSE] : o \in objs}
        \cup {[Obj(name, type, ZeroBox, Translate(location))
                  EXCEPT !.origin = idx, !.via = "ops", !.select = TRUE]}

\* scene.camera after objects left the scene
ActiveCameraIn(objs, cam) ==
    IF \E o \in objs : o.name = cam.name /\ o.origin = cam.origin THEN cam ELSE NoCamera

Emit(ev) == out' = Append(out, [ev |-> ev, i |-> idx])

-----------------------------------------------------------------------------
(* Initial state *)

Init ==
    /\ pc = "loop"
    /\ idx = 1
    /\ exists = <<>>
    /\ scene \in {{}, StartupScene}
    /\ scene_camera = IF scene = {} THEN NoCamera
                      ELSE [name |-> <<"C","a","m","e","r","a">>, origin |-> 0]
    /\ loaded = <<>>
    /\ excluded_objects = <<>>
    /\ resolution = <<1920, 1080>>
    /\ filepath = NoPath
    /\ camera = IdleCamera
    /\ out = <<>>
    /\ printed = <<>>
    /\ outputs = <<>>
    /\ steps = <<>>
    /\ failed = NoFailure
    /\ arg = Templates[1]
    /\ ret = FALSE

-----------------------------------------------------------------------------
(* main *)

\* a loop that a missing file ends
LoopNext_break_on_missing ==
    /\ pc = "loop"
    /\ idx <= N
    /\ \E found \in BOOLEAN :
          /\ exists' = Append(exists, found)
          /\ IF found
             THEN /\ Emit("Rendering")
                  /\ pc' = "setup_scene"
                  /\ idx' = idx
                  /\ steps' = <<>>
                  /\ printed' = <<>>
             ELSE /\ Emit("Warning")
                  /\ pc' = "loop"
                  /\ idx' = N + 1
                  /\ UNCHANGED <<steps, printed>>
    /\ UNCHANGED <<scene, loaded, excluded_objects, resolution, filepath,
                   camera, scene_camera, outputs, failed, arg, ret>>

\* one iteration of the for loop: the warning, or the call of render_model,
\* which starts by printing "Rendering"
LoopNext ==
    /\ pc = "loop"
    /\ idx <= N
    /\ \E found \in BOOLEAN :
          /\ exists' = Append(exists, found)
          /\ IF found
             THEN /\ Emit("Rendering")
                  /\ pc' = "setup_scene"
                  /\ idx' = idx
                  /\ steps' = <<>>
                  /\ printed' = <<>>
             ELSE /\ Emit("Warning")
                  /\ pc' = "loop"
                  /\ idx' = idx + 1
                  /\ UNCHANGED <<steps, printed>>
    /\ UNCHANGED <<scene, loaded, excluded_objects, resolution, filepath,
                   camera, scene_camera, outputs, failed, arg, ret>>

LoopEnd ==
    /\ pc = "loop"
    /\ idx = N + 1
    /\ Emit("Complete")
    /\ pc' = "done"
    /\ UNCHANGED <<idx, exists, scene, loaded, excluded_objects, resolution, filepath,
                   camera, scene_camera, printed, outputs, steps, failed, arg, ret>>

-----------------------------------------------------------------------------
(* render_model *)

\* the order of the statements of render_model
StepAfter_fit_first(step) ==
    CASE step = "setup_scene"   -> "import"
      [] step = "import"        -> "link"
      [] step = "link"          -> "remove"
      [] step = "remove"        -> "create_camera"
      [] step = "create_camera" -> "create_lights"
      [] step = "create_lights" -> "fit"
      [] step = "fit"           -> "resolution"
      [] step = "resolution"    -> "set_output"
      [] step = "set_output"    -> "render"
      [] step = "render"        -> "loop"

StepAfter(step) ==
    CASE step = "setup_scene"   -> "import"
      [] step = "import"        -> "link"
      [] step = "link"          -> "remove"
      [] step = "remove"        -> "resolution"
      [] step = "resolution"    -> "create_camera"
      [] step = "create_camera" -> "create_lights"
      [] step = "create_lights" -> "fit"
      [] step = "fit"           -> "set_output"
      [] step = "set_output"    -> "render"
      [] step = "render"        -> "loop"

\* a reset that deletes without selecting everything first
setup_scene_selected_only(objs) == delete(objs)

\* "Clear existing objects"
setup_scene(objs) == delete(select_all(objs))

SetupScene ==
    /\ pc = "setup_scene"
    /\ scene' = setup_scene(scene)
    /\ scene_camera' = ActiveCameraIn(scene', scene_camera)
    /\ steps' = Append(steps, "reset")
    /\ pc' = StepAfter(pc)
    /\ UNCHANGED <<idx, exists, loaded, excluded_objects, resolution, filepath,
                   camera, out, printed, outputs, failed, arg, ret>>

\* bpy.data.libraries.load: data_to.objects holds every object of the file
ImportModel ==
    /\ pc = "import"
    /\ \E file \in ModelFiles :
          loaded' = [i \in 1..Len(file) |-> [file[i] EXCEPT !.origin = idx]]
    /\ steps' = Append(steps, "import")
    /\ pc' = StepAfter(pc)
    /\ UNCHANGED <<idx, exists, scene, excluded_objects, resolution, filepath,
                   camera, scene_camera, out, printed, outputs, failed, arg, ret>>

\* the loop that links every loaded object and collects the excluded ones
LinkObjects ==
    /\ pc = "link"
    /\ scene' = scene \cup {loaded[i] : i \in 1..Len(loaded)}
    /\ excluded_objects' = SelectSeq(loaded, should_exclude_object)
    /\ steps' = Append(steps, "link")
    /\ pc' = StepAfter(pc)
    /\ UNCHANGED <<idx, exists, loaded, resolution, filepath,
                   camera, scene_camera, out, printed, outputs, failed, arg, ret>>

\* the loop that prints and removes every excluded object
RemoveExcluded ==
    /\ pc = "remove"
    /\ printed' = [i \in 1..Len(excluded_objects) |-> excluded_objects[i].name]
    /\ scene' = scene \ {excluded_objects[i] : i \in 1..Len(excluded_objects)}
    /\ scene_camera' = ActiveCameraIn(scene', scene_camera)
    /\ steps' = Append(steps, "remove_excluded")
    /\ pc' = StepAfter(pc)
    /\ UNCHANGED <<idx, exists, loaded, excluded_objects, resolution, filepath,
                   camera, out, outputs, failed, arg, ret>>

\* truncating the product instead of the per-hex height
Resolution_truncated_product(width_hexes, height_hexes) ==
    <<BASE_WIDTH * width_hexes, (512 * 52 * height_hexes) \div 60>>

Resolution(width_hexes, height_hexes) ==
    <<BASE_WIDTH * width_hexes, BASE_HEIGHT * height_hexes>>

SetResolution ==
    /\ pc = "resolution"
    /\ resolution' = Resolution(UNIT_CONFIG[idx].w, UNIT_CONFIG[idx].h)
    /\ steps' = Append(steps, "resolution")
    /\ pc' = StepAfter(pc)
    /\ UNCHANGED <<idx, exists, scene, loaded, excluded_objects, filepath,
                   camera, scene_camera, out, printed, outputs, failed, arg, ret>>

CreateCamera ==
    /\ pc = "create_camera"
    /\ scene' = object_add(scene, <<"R","e","n","d","e","r","C","a","m","e","r","a">>, "CAMERA", <<0, 0, 1000>>)
    /\ camera' = [name |-> <<"R","e","n","d","e","r","C","a","m","e","r","a">>, origin |-> idx,
                  location |-> <<FracInt(0), FracInt(0), FracInt(1000)>>,
                  ortho_scale |-> CameraDefaultOrthoScale]
    /\ scene_camera' = [name |-> <<"R","e","n","d","e","r","C","a","m","e","r","a">>, origin |-> idx]
    /\ steps' = Append(steps, "camera")
    /\ pc' = StepAfter(pc)
    /\ UNCHANGED <<idx, exists, loaded, excluded_objects, resolution, filepath,
                   out, printed, outputs, failed, arg, ret>>

create_lights(objs) ==
    object_add(object_add(object_add(objs,
        <<"K","e","y","L","i","g","h","t">>, "LIGHT", <<500, -500, 1000>>),
        <<"F","i","l","l","L","i","g","h","t">>, "LIGHT", <<-500, 500, 800>>),
        <<"R","i","m","L","i","g","h","t">>, "LIGHT", <<0, 500, 1200>>)

CreateLights ==
    /\ pc = "create_lights"
    /\ scene' = create_lights(scene)
    /\ steps' = Append(steps, "lights")
    /\ pc' = StepAfter(pc)
    /\ UNCHANGED <<idx, exists, loaded, excluded_objects, resolution, filepath,
                   camera, scene_camera, out, printed, outputs, failed, arg, ret>>

-----------------------------------------------------------------------------
(* fit_camera_to_objects *)

\* float('inf'), float('-inf') and finite values
PosInf == [inf |-> 1, v |-> 0]
NegInf == [inf |-> -1, v |-> 0]
Finite(x) == [inf |-> 0, v |-> x]

\* min(a, x) and max(a, x) for a running bound a and a finite x
RunMin(a, x) == IF a.inf = 1 THEN Finite(x)
                ELSE IF a.inf = -1 THEN a
                ELSE IF x < a.v THEN Finite(x) ELSE a
RunMax(a, x) == IF a.inf = -1 THEN Finite(x)
                ELSE IF a.inf = 1 THEN a
                ELSE IF x > a.v THEN Finite(x) ELSE a

\* the inner loop: the corners of one object, from corner i on
RECURSIVE FitVertices(_, _, _)
FitVertices(acc, obj, i) ==
    IF i > Len(obj.bound_box) THEN acc
    ELSE LET world_vertex == MatVec(obj.matrix_world, obj.bound_box[i])
         IN  FitVertices([min_x |-> RunMin(acc.min_x, world_vertex[1]),
                          max_x |-> RunMax(acc.max_x, world_vertex[1]),
                          min_y |-> RunMin(acc.min_y, world_vertex[2]),
                          max_y |-> RunMax(acc.max_y, world_vertex[2])], obj, i + 1)

\* the outer loop over the mesh objects
RECURSIVE FitMeshes(_, _)
FitMeshes(acc, meshes) ==
    IF meshes = {} THEN acc
    ELSE LET obj == CHOOSE o \in meshes : TRUE
         IN  FitMeshes(FitVertices(acc, obj, 1), meshes \ {obj})

MeshObjects(objs) == {obj \in objs : obj.type = "MESH"}

\* the centre taken as half the extent
Midpoint_of_extent(lo, hi) == Frac(hi - lo, 2)

Midpoint(lo, hi) == Frac(lo + hi, 2)

\* the body of fit_camera_to_objects after the early return
Framed(cam, meshes, res) ==
    LET box    == FitMeshes([min_x |-> PosInf, max_x |-> NegInf,
                             min_y |-> PosInf, max_y |-> NegInf], meshes)
        min_x  == box.min_x.v
        max_x  == box.max_x.v
        min_y  == box.min_y.v
        max_y  == box.max_y.v
        width  == max_x - min_x
        height == max_y - min_y
        aspect == Frac(res[1], res[2])
        scale  == IF FracLess(FracInt(height), FracDiv(FracInt(width), aspect))
                  THEN FracMul(FracInt(width), Padding)
                  ELSE FracMul(FracMul(FracInt(height), aspect), Padding)
        center_x == Midpoint(min_x, max_x)
        center_y == Midpoint(min_y, max_y)
    IN  [cam EXCEPT !.ortho_scale = scale,
                    !.location = <<center_x, center_y, cam.location[3]>>]

\* framing without the early return
fit_camera_unguarded(cam, objs, res) == Framed(cam, MeshObjects(objs), res)

fit_camera_to_objects(cam, objs, res) ==
    LET meshes == MeshObjects(objs)
    IN  IF meshes = {} THEN cam ELSE Framed(cam, meshes, res)

FitCamera ==
    /\ pc = "fit"
    /\ camera' = fit_camera_to_objects(camera, scene, resolution)
    /\ steps' = Append(steps, "fit")
    /\ pc' = StepAfter(pc)
    /\ UNCHANGED <<idx, exists, scene, loaded, excluded_objects, resolution, filepath,
                   scene_camera, out, printed, outputs, failed, arg, ret>>

\* OUTPUT_DIR / f"{output_name}.png"
OutputPath(output_name) == [dir |-> "OUTPUT_DIR", name |-> output_name, ext |-> "png"]

SetOutputPath ==
    /\ pc = "set_output"
    /\ filepath' = OutputPath(UNIT_CONFIG[idx].output)
    /\ steps' = Append(steps, "output_path")
    /\ pc' = StepAfter(pc)
    /\ UNCHANGED <<idx, exists, scene, loaded, excluded_objects, resolution,
                   camera, scene_camera, out, printed, outputs, failed, arg, ret>>

\* the file a render writes: the picture at the scene's resolution
Image(complete) == [resolution |-> resolution, entry |-> idx, complete |-> complete]

\* bpy.ops.render.render(write_still=True), the "Saved" line and the return
\* to main's loop
Render ==
    /\ pc = "render"
    /\ outputs' = (filepath :> Image(TRUE)) @@ outputs
    /\ Emit("Saved")
    /\ steps' = Append(steps, "render")
    /\ idx' = idx + 1
    /\ pc' = StepAfter(pc)
    /\ loaded' = <<>>                \* the locals of the call end with it
    /\ excluded_objects' = <<>>
    /\ camera' = IdleCamera
    /\ UNCHANGED <<exists, scene, resolution, filepath,
                   scene_camera, printed, failed, arg, ret>>

-----------------------------------------------------------------------------
(* Host failures *)

\* the steps of render_model that call into the host
HostSteps == {"setup_scene", "import", "link", "remove",
              "create_camera", "create_lights", "render"}

\* a variant in which render_model's caller catches the error and goes on
\* with the next entry
HostFail_caught ==
    /\ pc \in HostSteps
    /\ failed' = [at |-> idx, step |-> pc, out |-> out, outputs |-> outputs]
    /\ pc' = "loop"
    /\ idx' = idx + 1
    /\ loaded' = <<>>
    /\ excluded_objects' = <<>>
    /\ camera' = IdleCamera
    /\ UNCHANGED <<exists, scene, resolution, filepath, outputs,
                   scene_camera, out, printed, steps, arg, ret>>

\* a host call raises and nothing catches it: the script ends; a failing
\* render may leave a partial file behind
HostFail ==
    /\ pc \in HostSteps
    /\ failed' = [at |-> idx, step |-> pc, out |-> out, outputs |-> outputs]
    /\ pc' = "aborted"
    /\ \/ outputs' = outputs
       \/ /\ pc = "render"
          /\ outputs' = (filepath :> Image(FALSE)) @@ outputs
    /\ UNCHANGED <<idx, exists, scene, loaded, excluded_objects, resolution, filepath,
                   camera, scene_camera, out, printed, steps, arg, ret>>

-----------------------------------------------------------------------------
(* The batch *)

Next ==
    \/ LoopNext
    \/ LoopEnd
    \/ SetupScene
    \/ ImportModel
    \/ LinkObjects
    \/ RemoveExcluded
    \/ SetResolution
    \/ CreateCamera
    \/ CreateLights
    \/ FitCamera
    \/ SetOutputPath
    \/ Render
    \/ HostFail

Spec == Init /\ [][Next]_vars

-----------------------------------------------------------------------------
(* should_exclude_object on its own: the object is drawn from bounded sets *)

Alphabet == {"p", "a", "d", "P", "A", "D", "_"}

GeneratedNames == UNION {[1..n -> Alphabet] : n \in 0..MaxNameLen}

MatchingNames == {
    <<"p","l","a","n","e">>, <<"h","e","x","_","s","o","c","l","e">>, <<"g","r","o","u","n","d","0","1">>, <<"P","l","a","n","e">>, <<"H","E","X","A","G","O","N","E">>, <<"B","a","s","e",".","0","0","1">>,
    <<"l","a","u","n","c","h","P","a","d">>, <<"S","t","a","n","d">>, <<"F","l","O","o","R">>, <<"P","l","a","t","f","o","r","m">>, <<"s","u","p","p","o","r","t","_","L">>, <<"h","e","x","a","g","o","n">> }

OtherNames == { <<"C","u","b","e">>, <<"T","u","r","r","e","t">>, <<"p","l","a","_","n","e">>, <<"b","a","s">>, <<"S","p","h","e","r","e">> }

Box(origin, size) ==
    BoundBox(origin, <<origin[1] + size[1], origin[2] + size[2], origin[3] + size[3]>>)

FewBoxes == { ZeroBox,
              Box(<<0, 0, 0>>, <<100, 100, 1>>),
              Box(<<-50, -50, 0>>, <<100, 100, 100>>),
              Box(<<0, 0, -300>>, <<1, 2, 900>>) }

GeneratedBoxes ==
    {Box(o, <<x, y, z>>) : o \in {<<0, 0, 0>>, <<-7, 3, -2>>},
                           x \in 0..MaxXY, y \in 0..MaxXY, z \in 0..MaxZ}

FilterInputs ==
    {Obj(n, t, b, Identity) :
        n \in GeneratedNames \cup MatchingNames \cup OtherNames,
        t \in {"MESH", "EMPTY"}, b \in FewBoxes}
    \cup
    {Obj(n, "MESH", b, Identity) :
        n \in {<<"C","u","b","e">>, <<"p","l","a","n","e">>, <<"p","l","a","_","n","e">>}, b \in GeneratedBoxes}

Idle ==
    /\ idx = 1
    /\ exists = <<>>
    /\ scene = {}
    /\ scene_camera = NoCamera
    /\ loaded = <<>>
    /\ excluded_objects = <<>>
    /\ resolution = <<1920, 1080>>
    /\ filepath = NoPath
    /\ camera = IdleCamera
    /\ out = <<>>
    /\ printed = <<>>
    /\ outputs = <<>>
    /\ steps = <<>>
    /\ failed = NoFailure

InitFilter ==
    /\ pc = "call"
    /\ arg \in FilterInputs
    /\ ret = FALSE
    /\ Idle

CallFilter ==
    /\ pc = "call"
    /\ ret' = should_exclude_object(arg)
    /\ pc' = "return"
    /\ UNCHANGED <<idx, exists, scene, loaded, excluded_objects, resolution, filepath,
                   camera, scene_camera, out, printed, outputs, steps, failed, arg>>

NextFilter == CallFilter

SpecFilter == InitFilter /\ [][NextFilter]_vars

-----------------------------------------------------------------------------
(* Properties *)

Entries == 1..N

EntryIndices == [i \in Entries |-> i]

IsWarning(e)   == e.ev = "Warning"
IsRendering(e) == e.ev = "Rendering"
IsSaved(e)     == e.ev = "Saved"
IsComplete(e)  == e.ev = "Complete"

IndicesOf(events) == [k \in 1..Len(events) |-> events[k].i]

WasMissing(i) == i <= Len(exists) /\ ~exists[i]
WasPresent(i) == i <= Len(exists) /\ exists[i]

BatchLogMatchesFiles ==
    \* every entry up to the current one has been looked up once, in order
    /\ idx \in 1..(N + 1)
    /\ Len(exists) = IF pc \in {"loop", "done"} THEN idx - 1 ELSE idx
    \* one warning per missing entry, none for a present one
    /\ IndicesOf(SelectSeq(out, IsWarning)) = SelectSeq(EntryIndices, WasMissing)
    \* render_model is invoked exactly for the present entries
    /\ IndicesOf(SelectSeq(out, IsRendering)) = SelectSeq(EntryIndices, WasPresent)
    \* the completion line comes after the whole table
    /\ pc = "done" => /\ Len(exists) = N
                      /\ IsComplete(out[Len(out)])
                      /\ IndicesOf(SelectSeq(out, IsSaved)) = SelectSeq(EntryIndices, WasPresent)
    /\ SelectSeq(out, IsComplete) # <<>> => pc = "done"
    \* only a host failure inside a render ends the batch early
    /\ pc = "aborted" => failed.at # 0 /\ exists[failed.at]

\* the number of steps the script still has to take when no host call fails
\* and every remaining file exists
StepsLeft ==
    CASE pc = "done"          -> 0
      [] pc = "aborted"       -> 0
      [] pc = "loop"          -> 11
      [] pc = "setup_scene"   -> 10
      [] pc = "import"        -> 9
      [] pc = "link"          -> 8
      [] pc = "remove"        -> 7
      [] pc = "resolution"    -> 6
      [] pc = "create_camera" -> 5
      [] pc = "create_lights" -> 4
      [] pc = "fit"           -> 3
      [] pc = "set_output"    -> 2
      [] pc = "render"        -> 1

Remaining == (N + 1 - idx) * 12 + StepsLeft

\* C1: main visits every table entry once, in table order; it calls
\* render_model exactly for the entries whose file exists and prints exactly
\* one warning for each missing one; a missing file never stops the loop:
\* main can always take its next step, every step brings the script closer
\* to its end, and short of a host failure the end is "Rendering complete".
C1_BatchSkipsMissingFiles ==
    /\ []BatchLogMatchesFiles
    /\ [](pc = "loop" => ENABLED (LoopNext \/ LoopEnd))
    /\ [][Remaining' < Remaining]_vars

C1_Witness ==
    /\ pc = "done"
    /\ \E i, j \in Entries : i < j /\ ~exists[i] /\ exists[j]
                             /\ OutputPath(UNIT_CONFIG[j].output) \in DOMAIN outputs
    /\ Len(SelectSeq(out, IsWarning)) = 2

ClaimedOrder == <<"reset", "import", "remove_excluded", "resolution", "camera",
                  "lights", "fit", "output_path", "render">>

IsClaimedStep(s) == \E k \in 1..Len(ClaimedOrder) : ClaimedOrder[k] = s

IsPrefix(s, t) == Len(s) <= Len(t) /\ s = SubSeq(t, 1, Len(s))

\* C2: within one render_model call the steps run in the order reset, import,
\* removal of the excluded objects, resolution, camera, lights, framing,
\* output path, render, each at most once; the render uses the output path
\* of the current model, and framing sees the scene without the excluded
\* objects and the resolution of the current model.
C2_StepsInOrder ==
    /\ IsPrefix(SelectSeq(steps, IsClaimedStep), ClaimedOrder)
    /\ pc = "render" =>
          /\ filepath.name = UNIT_CONFIG[idx].output
          /\ filepath.ext = "png"
    /\ \A p \in DOMAIN outputs : p.name = UNIT_CONFIG[outputs[p].entry].output
    /\ pc = "fit" =>
          /\ \A o \in scene : ~should_exclude_object(o)
          /\ resolution = <<512 * UNIT_CONFIG[idx].w, 443 * UNIT_CONFIG[idx].h>>

C2_Witness ==
    /\ pc = "loop"
    /\ SelectSeq(steps, IsClaimedStep) = ClaimedOrder
    /\ printed # <<>>
    /\ Len(SelectSeq(out, IsSaved)) >= 2

Ident(o) == <<o.name, o.origin, o.via>>

\* C3: when render is invoked the scene holds exactly the objects imported
\* from the current model's file that the filter retained, one camera and
\* three lights created in this iteration, the active camera is that camera,
\* and nothing from an earlier iteration or from the startup scene is left.
C3_SceneRebuiltPerModel ==
    pc = "render" =>
        LET kept == {Ident(loaded[i]) : i \in {k \in 1..Len(loaded) :
                                                ~should_exclude_object(loaded[k])}}
            made == {o \in scene : Ident(o) \notin kept}
        IN  /\ kept \subseteq {Ident(o) : o \in scene}
            /\ \A o \in scene : o.origin = idx
            /\ \A o \in made : o.via = "ops"
            /\ Cardinality(made) = 4
            /\ Cardinality({o \in made : o.type = "CAMERA"}) = 1
            /\ Cardinality({o \in made : o.type = "LIGHT"}) = 3
            /\ \E o \in made : /\ o.type = "CAMERA"
                               /\ scene_camera = [name |-> o.name, origin |-> o.origin]

C3_Witness ==
    /\ pc = "render"
    /\ Len(SelectSeq(out, IsSaved)) >= 1
    /\ Len(loaded) = 2
    /\ Len(excluded_objects) = 1
    /\ Cardinality(scene) = 5

\* C4: once a host call has failed the batch is over: the script is stopped,
\* no later entry is looked up, rendered or warned about, nothing more is
\* printed (in particular no completion line), and the files written by the
\* earlier models are as they were.
C4_HostFailureAbortsBatch ==
    failed.at # 0 =>
        /\ pc = "aborted"
        /\ idx = failed.at
        /\ Len(exists) = failed.at
        /\ out = failed.out
        /\ SelectSeq(out, IsComplete) = <<>>
        /\ \A e \in {out[k] : k \in 1..Len(out)} : e.i <= failed.at
        /\ \A p \in DOMAIN failed.outputs :
              /\ p \in DOMAIN outputs
              /\ outputs[p] = failed.outputs[p]
              /\ outputs[p].entry < failed.at
        /\ \A p \in DOMAIN outputs : outputs[p].entry <= failed.at

C4_Witness ==
    /\ pc = "aborted"
    /\ failed.at \in 2..(N - 1)
    /\ failed.step = "import"
    /\ DOMAIN failed.outputs # {}

\* the letter c is the letter l, in either case
SameLetter(c, l) ==
    \/ c = l
    \/ \E k \in 1..26 : LowerCase[k] = l /\ UpperCase[k] = c

ListedSubstrings == {
    <<"p","l","a","n","e">>, <<"b","a","s","e">>, <<"f","l","o","o","r">>, <<"p","l","a","t","f","o","r","m">>, <<"g","r","o","u","n","d">>, <<"h","e","x">>, <<"h","e","x","a","g","o","n">>,
    <<"h","e","x","a","g","o","n","e">>, <<"s","o","c","l","e">>, <<"s","u","p","p","o","r","t">>, <<"s","t","a","n","d">>, <<"p","a","d">> }

\* name contains one of the listed substrings, compared case-insensitively
NameListed(name) ==
    \E w \in ListedSubstrings : \E start \in 0..(Len(name) - Len(w)) :
        \A k \in 1..Len(w) : SameLetter(name[start + k], w[k])

\* C5: a mesh object whose name contains one of the listed substrings, in
\* any case, is excluded whatever its bounding box is.
C5_NameRuleExcludes ==
    (pc = "return" /\ arg.type = "MESH") =>
        /\ NameListed(arg.name) => ret = TRUE
        /\ arg.name \in {<<"p","l","a","n","e">>, <<"h","e","x","_","s","o","c","l","e">>, <<"g","r","o","u","n","d","0","1">>} => ret = TRUE

C5_Witness ==
    /\ pc = "return"
    /\ arg.type = "MESH"
    /\ arg.name = <<"l","a","u","n","c","h","P","a","d">>
    /\ arg.bound_box = ZeroBox
    /\ ret = TRUE

\* the extent of the bounding box along an axis
Extent(obj, axis) ==
    LET cs == {obj.bound_box[i][axis] : i \in 1..8}
    IN  (CHOOSE hi \in cs : \A c \in cs : c <= hi) - (CHOOSE lo \in cs : \A c \in cs : lo <= c)

LargerOf(a, b) == IF a >= b THEN a ELSE b

\* C6: a mesh object whose name matches no substring is excluded exactly
\* when xy_size > 0 and z_height / xy_size < 0.05, strictly.
C6_FlatnessRule ==
    (pc = "return" /\ arg.type = "MESH" /\ ~NameListed(arg.name)) =>
        LET z_height == Extent(arg, 3)
            xy_size  == LargerOf(Extent(arg, 1), Extent(arg, 2))
        IN  /\ ret = (xy_size > 0 /\ 100 * z_height < 5 * xy_size)
            /\ xy_size = 0 => ret = FALSE
            /\ (z_height = 1 /\ xy_size = 100) => ret = TRUE
            /\ (z_height = 100 /\ xy_size = 100) => ret = FALSE

C6_Witness ==
    /\ pc = "return"
    /\ arg.type = "MESH"
    /\ arg.name = <<"C","u","b","e">>
    /\ Extent(arg, 3) = 1
    /\ Extent(arg, 1) = 20
    /\ Extent(arg, 2) = 7
    /\ ret = FALSE

\* C7: the resolution in effect at the render of an entry of w by h hexes is
\* (512 * w, 443 * h).
C7_ResolutionPerHex ==
    /\ pc = "render" =>
          /\ resolution = <<512 * UNIT_CONFIG[idx].w, 443 * UNIT_CONFIG[idx].h>>
          /\ (UNIT_CONFIG[idx].w = 1 /\ UNIT_CONFIG[idx].h = 1) => resolution = <<512, 443>>
          /\ (UNIT_CONFIG[idx].w = 2 /\ UNIT_CONFIG[idx].h = 1) => resolution = <<1024, 443>>
          /\ (UNIT_CONFIG[idx].w = 2 /\ UNIT_CONFIG[idx].h = 2) => resolution = <<1024, 886>>
    /\ \A p \in DOMAIN outputs :
          outputs[p].resolution = <<512 * UNIT_CONFIG[outputs[p].entry].w,
                                    443 * UNIT_CONFIG[outputs[p].entry].h>>

C7_Witness ==
    /\ OutputPath("astronef") \in DOMAIN outputs
    /\ outputs[OutputPath("astronef")].resolution = <<1024, 886>>
    /\ outputs[OutputPath("astronef")].complete
    /\ OutputPath("barge") \in DOMAIN outputs
    /\ outputs[OutputPath("barge")].resolution = <<1024, 443>>

\* the world-space corners of the mesh objects of the scene, on one axis
SceneMeshes == {o \in scene : o.type = "MESH"}

CornerCoords(axis) ==
    {o.matrix_world[axis][1] * o.bound_box[i][1] + o.matrix_world[axis][2] * o.bound_box[i][2]
        + o.matrix_world[axis][3] * o.bound_box[i][3] + o.matrix_world[axis][4] :
        o \in SceneMeshes, i \in 1..8}

Least(S)    == CHOOSE m \in S : \A c \in S : m <= c
Greatest(S) == CHOOSE m \in S : \A c \in S : c <= m

MeshNames == {o.name : o \in SceneMeshes}

\* C8: with at least one mesh in the scene, framing sets ortho_scale to
\* H * aspect * 1.2 if H * aspect exceeds W and to W * 1.2 otherwise, W and H
\* being the sides of the rectangle enclosing the world-space corners of the
\* mesh objects only, and aspect = resolution_x / resolution_y.
C8_FramingScale ==
    (pc = "set_output" /\ SceneMeshes # {}) =>
        LET W  == Greatest(CornerCoords(1)) - Least(CornerCoords(1))
            H  == Greatest(CornerCoords(2)) - Least(CornerCoords(2))
            rx == resolution[1]
            ry == resolution[2]
            s  == camera.ortho_scale
        IN  /\ IF H * rx > W * ry
               THEN s = Frac(H * rx * 12, ry * 10)
               ELSE s = Frac(W * 12, 10)
            /\ MeshNames = {<<"C","u","b","e">>, <<"T","u","r","r","e","t">>} =>
                  /\ Least(CornerCoords(1)) = -100 /\ Least(CornerCoords(2)) = -100
                  /\ Greatest(CornerCoords(1)) = 500 /\ Greatest(CornerCoords(2)) = 500
                  /\ W = 600 /\ H = 600

C8_Witness ==
    /\ pc = "set_output"
    /\ MeshNames = {<<"C","u","b","e">>, <<"T","u","r","r","e","t">>}
    /\ resolution = <<1024, 886>>
    /\ camera.ortho_scale = Frac(600 * 1024 * 12, 886 * 10)

\* C9: with at least one mesh in the scene, framing moves the camera's X and
\* Y to the midpoint of that rectangle and leaves its Z where create_camera
\* put it.
C9_FramingCenter ==
    (pc = "set_output" /\ SceneMeshes # {}) =>
        LET cx == camera.location[1]
            cy == camera.location[2]
        IN  /\ cx.n * 2 = (Least(CornerCoords(1)) + Greatest(CornerCoords(1))) * cx.d
            /\ cy.n * 2 = (Least(CornerCoords(2)) + Greatest(CornerCoords(2))) * cy.d
            /\ camera.location[3] = [n |-> 1000, d |-> 1]
            /\ MeshNames = {<<"C","u","b","e">>, <<"T","u","r","r","e","t">>} =>
                  cx = [n |-> 200, d |-> 1] /\ cy = [n |-> 200, d |-> 1]

C9_Witness ==
    /\ pc = "set_output"
    /\ MeshNames = {<<"C","u","b","e">>, <<"T","u","r","r","e","t">>}
    /\ camera.location = <<[n |-> 200, d |-> 1], [n |-> 200, d |-> 1], [n |-> 1000, d |-> 1]>>

\* C10: with no mesh in the scene, framing leaves the camera as
\* create_camera made it, prints nothing, fails nothing, and the call goes on
\* to set the output path.
C10_FramingWithoutMeshes ==
    [][(pc = "fit" /\ SceneMeshes = {}) =>
          /\ camera' = camera
          /\ camera'.ortho_scale = [n |-> 600, d |-> 1]
          /\ camera'.location = <<[n |-> 0, d |-> 1], [n |-> 0, d |-> 1], [n |-> 1000, d |-> 1]>>
          /\ out' = out
          /\ printed' = printed
          /\ failed' = failed
          /\ pc' = "set_output"]_vars

C10_Witness ==
    /\ pc = "render"
    /\ SceneMeshes = {}
    /\ Len(loaded) = 2
    /\ Len(excluded_objects) = 2
    /\ camera.ortho_scale = [n |-> 600, d |-> 1]
    /\ filepath.name = UNIT_CONFIG[idx].output

=============================================================================
